---------------------------- MODULE Spec2Model ----------------------------
(***************************************************************************)
(* Credential lifecycle of libnar (src/libnar/libnar/libnar.py,            *)
(* src/libnar/libnar/multicloud.py): the refresh gate                      *)
(* Narcon.refresh_token_if_expired, the refresh pipeline                   *)
(* Narcon.generate_access_token with its network legs, the secret lookup   *)
(* that re-enters the gate, the FSProxy that runs the gate before every    *)
(* storage operation, the construction of a session (nar_setup,            *)
(* get_storage), the request signing get_aws_caller_identity, and          *)
(* CloudStorage.get_fs / set_fs.                                           *)
(*                                                                         *)
(* Each caller is a Python thread with its own call stack (stk[c], a       *)
(* sequence of frames, the last one executing).  One action is one         *)
(* statement group of one frame; statements of different threads           *)
(* interleave.  The credential records (stor: the storage session's        *)
(* cs.cred_info, sess: Narcon.cred_info) and the clock are shared.         *)
(***************************************************************************)
EXTENDS Integers, Sequences, FiniteSets, TLC

\* Bounds of the model.
MaxClock == 2
MaxTok == 2
MaxDepth == 7
MaxClients == 2

Callers == {"c1", "c2"}
Vendors == {"aws", "gcp", "azure"}
Modes == {"internal", "external", "none"}

VARIABLES
    clock,    \* current time, in seconds (datetime.now(tzutc()) / time.time())
    stor,     \* cs.cred_info: the storage session's credential record
    sess,     \* Narcon.cred_info: the session's own GCP record (or None)
    fsTok,    \* the token the storage handle cs.fs was constructed with
    stk,      \* stk[c]: call stack of caller c
    log,      \* log[c]: what c's current operation did so far (calls, requests)
    res,      \* res[c]: "new", "run", "ok" or the error its last operation raised
    nextTok,  \* identity of the next 2xx token response of a server
    out,      \* out[c]: the value c's last operation returned, or its error's message
    narcon    \* the Narcon object: construction phase, infra_type, cs and fs

vars == <<clock, stor, sess, fsTok, stk, log, res, nextTok, out, narcon>>

---------------------------------------------------------------------------
\* Values

\* A token: absent (None), or the accessToken of response number id
\* (id 0: the token the record was created with).
NoTok == [some |-> FALSE, id |-> 0]
Tok(i) == [some |-> TRUE, id |-> i]

\* An expiry: absent (None), or an ISO timestamp with its instant t, its
\* timezone ("utc": Z or a zero offset, "other": any other offset) and the
\* response src it was taken from.  For Azure: expires_on, an epoch integer.
NoExp == [some |-> FALSE, t |-> 0, tz |-> "utc", src |-> 0]
Exp(t, tz, i) == [some |-> TRUE, t |-> t, tz |-> tz, src |-> i]

\* The value a call returns to its caller's frame: a tag, and for a token
\* response the body fields that are present.  NoRet is None.  An exception's
\* message is the sequence msg of its parts; a signed request's token is
\* signed; a storage client is the number fs of its construction.
Ret(s) ==
    [s |-> s, hasTok |-> FALSE, tok |-> NoTok, hasExp |-> FALSE, exp |-> NoExp,
     msg |-> <<>>, signed |-> [quoted |-> <<>>], fs |-> 0]
NoRet == Ret("")
Message(parts) == [Ret("error") EXCEPT !.msg = parts]
Body(hasTok, hasExp, i, t, tz) ==
    [s |-> "body", hasTok |-> hasTok, tok |-> IF hasTok THEN Tok(i) ELSE NoTok,
     hasExp |-> hasExp, exp |-> IF hasExp THEN Exp(t, tz, i) ELSE NoExp,
     msg |-> <<>>, signed |-> [quoted |-> <<>>], fs |-> 0]

\* The instants a server puts in expireTime / expires_on: already reached, or
\* the last instant of the clock.
RespTimes == {0, MaxClock}

\* The 2xx bodies of generateAccessToken for response number i.
Bodies(i) ==
    {Body(TRUE, TRUE, i, t, tz) : t \in RespTimes, tz \in {"utc", "other"}}
    \cup {Body(TRUE, FALSE, i, 0, "utc"), Body(FALSE, TRUE, i, MaxClock, "utc")}

\* GCPCredInfo, AWSCredInfo, AZCredInfo (multicloud.py); None is variant "none".
GCPCredInfo(sa, mode, tok, exp) ==
    [variant |-> "gcp", sa_email |-> sa, audience |-> "aud", refresh_mode |-> mode,
     project |-> "none", token |-> tok, token_expiry |-> exp]
AWSCredInfo == [variant |-> "aws"]
AZCredInfo(tok, exp) ==
    [variant |-> "azure", account_name |-> "acc", tenant_id |-> "tid",
     client_id |-> "cid", credential |-> [token |-> tok, expires_on |-> exp]]
NoCred == [variant |-> "none"]

\* Fixed accounts and audience of libnar.py.
NARWHAL_SA == "narwhal-sa"
SAMA_EXT_SA == "sama-external"
SAMA_EXT_AUDIENCE == "ext-aud"

---------------------------------------------------------------------------
\* Frames and the call stack

\* The arguments of a call: positional ones and keyword ones.
NoArgs == [pos |-> <<>>, kw |-> {}]

Frame(fn, pc, r, v) ==
    [fn |-> fn, pc |-> pc, r |-> r, v |-> v,
     exp |-> NoExp, now |-> 0, sa |-> "", via |-> "", ret |-> NoRet, old |-> NoCred,
     args |-> NoArgs, meta |-> [exists |-> FALSE, infra_type |-> "", cloud |-> ""]]

Depth(c) == Len(stk[c])
Top(c) == stk[c][Len(stk[c])]
Running(c) == stk[c] # <<>>
At(c, fn, pc) == Running(c) /\ Top(c).fn = fn /\ Top(c).pc = pc

Rec(r) == IF r = "stor" THEN stor ELSE sess

\* An assignment to a field of record r: the record becomes val.
SetRec(r, val) ==
    IF r = "stor" THEN stor' = val /\ UNCHANGED sess
                  ELSE sess' = val /\ UNCHANGED stor

\* One event of an operation: a call, or a network request with the service
\* account it names and the credential it carries; for a call of the storage
\* handle, the arguments it received and what it returned or raised; for a
\* signing, the time it read.
Ev(leg, r, sa, via, tok) ==
    [leg |-> leg, r |-> r, sa |-> sa, via |-> via, tok |-> tok,
     args |-> NoArgs, out |-> NoRet, err |-> "", now |-> 0]

NetLegs == {"secret", "cognito_id", "cognito_cred", "sts", "imp", "aad", "acc_info"}
NetCalls(c) == SelectSeq(log[c], LAMBDA e : e.leg \in NetLegs)

\* The top frame is replaced by f.
Step(c, f) ==
    /\ stk' = [stk EXCEPT ![c] = [@ EXCEPT ![Len(@)] = f]]
    /\ UNCHANGED <<res, out>>

\* The top frame continues at pc and calls g.  Python's recursion limit ends
\* a call chain deeper than MaxDepth with RecursionError.
Call(c, f, g) ==
    /\ IF Depth(c) >= MaxDepth
       THEN /\ stk' = [stk EXCEPT ![c] = <<>>]
            /\ res' = [res EXCEPT ![c] = "RecursionError"]
       ELSE /\ stk' = [stk EXCEPT ![c] = Append([@ EXCEPT ![Len(@)] = f], g)]
            /\ UNCHANGED res
    /\ UNCHANGED out

\* The top frame returns v to the frame below; the operation ends when the
\* last frame returns, and v is what the caller of the operation receives.
Return(c, v) ==
    IF Depth(c) = 1
    THEN /\ stk' = [stk EXCEPT ![c] = <<>>]
         /\ res' = [res EXCEPT ![c] = "ok"]
         /\ out' = [out EXCEPT ![c] = v]
    ELSE /\ stk' = [stk EXCEPT ![c] =
                      [i \in 1..(Len(@) - 1) |->
                          IF i = Len(@) - 1 THEN [@[i] EXCEPT !.ret = v] ELSE @[i]]]
         /\ UNCHANGED <<res, out>>

\* An exception: no frame of these call chains handles it (get_cognito_token,
\* get_gcp_sts_token and gcp_impersonate_token re-raise), so it unwinds the
\* whole stack and reaches the caller of the operation.
Raise(c, err) ==
    /\ stk' = [stk EXCEPT ![c] = <<>>]
    /\ res' = [res EXCEPT ![c] = err]
    /\ UNCHANGED out

Logged(c, e) == log' = [log EXCEPT ![c] = Append(@, e)]

---------------------------------------------------------------------------
\* Narcon.refresh_token_if_expired(cred_info, cloud_vendor)

\* Variant of Expired: a strict comparison.
ExpiredStrict(exp, now) == exp.t < now

\* expiry_time <= datetime.now(tzutc()) ; expiry_time <= current_time
Expired(exp, now) == exp.t <= now

\* Variant of NotUtc: the timezone is not looked at.
NotUtcUnchecked(exp) == FALSE

\* expiry_time.tzinfo != tzutc()
NotUtc(exp) == exp.tz # "utc"

UtcError == "ValueError: GCP TOKEN EXPIRY MUST BE IN UTC FORMAT!"

\* Variant of GateBranch: a vendor that is not azure is treated as gcp.
GateBranchElseGcp(v) == IF v = "azure" THEN "azure" ELSE "gcp"

\* Lines 177 and 185: the branch the vendor argument selects; any vendor
\* other than gcp and azure falls through both tests.
GateBranch(v) ==
    CASE v = "gcp" -> "gcp"
      [] v = "azure" -> "azure"
      [] OTHER -> "none"

\* Lines 177-180 and 185-186: the vendor branch and the read of the expiry.
GateRead(c) ==
    /\ At(c, "gate", "g0")
    /\ LET f == Top(c)
           rec == Rec(f.r)
       IN  CASE GateBranch(f.v) = "gcp" ->
                  IF rec.variant # "gcp"
                  THEN Raise(c, "AttributeError")
                  ELSE IF ~rec.token_expiry.some
                  THEN Raise(c, "TypeError")
                  ELSE Step(c, [f EXCEPT !.pc = "g1", !.exp = rec.token_expiry])
            [] GateBranch(f.v) = "azure" ->
                  IF rec.variant # "azure"
                  THEN Raise(c, "AttributeError")
                  ELSE Step(c, [f EXCEPT !.pc = "g1", !.exp = rec.credential.expires_on])
            [] OTHER -> Return(c, NoRet)
    /\ Logged(c, Ev("gate", Top(c).r, "", Top(c).v, NoTok))
    /\ UNCHANGED <<clock, stor, sess, fsTok, nextTok, narcon>>

\* Lines 181-184 (gcp) and 187-191 (azure): the timezone check, the
\* comparison with the current time, and the call of the pipeline.
GateCompare(c) ==
    /\ At(c, "gate", "g1")
    /\ LET f == Top(c)
       IN  IF GateBranch(f.v) = "gcp" /\ NotUtc(f.exp)
           THEN Raise(c, UtcError)
           ELSE IF Expired(f.exp, clock)
           THEN Call(c, [f EXCEPT !.pc = "g2", !.now = clock],
                     IF GateBranch(f.v) = "gcp" THEN Frame("gen", "n0", f.r, "")
                                    ELSE Frame("aztoken", "a0", f.r, ""))
           ELSE Return(c, NoRet)
    /\ UNCHANGED <<clock, stor, sess, fsTok, log, nextTok, narcon>>

\* Variant of GateFinish: the new token is put into the holder the record has.
GateFinishTokenOnly(c) ==
    /\ At(c, "gate", "g2")
    /\ LET f == Top(c)
       IN  /\ IF GateBranch(f.v) = "azure"
              THEN SetRec(f.r, [Rec(f.r) EXCEPT !.credential.token = f.ret.tok])
              ELSE UNCHANGED <<stor, sess>>
           /\ Return(c, NoRet)
    /\ UNCHANGED <<clock, fsTok, log, nextTok, narcon>>

\* Line 184 returned (gcp), or line 192 (azure): cred_info.credential =
\* AZTokenCredential(az_token).
GateFinish(c) ==
    /\ At(c, "gate", "g2")
    /\ LET f == Top(c)
       IN  /\ IF GateBranch(f.v) = "azure"
              THEN SetRec(f.r, [Rec(f.r) EXCEPT !.credential =
                                  [token |-> f.ret.tok, expires_on |-> f.ret.exp]])
              ELSE UNCHANGED <<stor, sess>>
           /\ Return(c, NoRet)
    /\ UNCHANGED <<clock, fsTok, log, nextTok, narcon>>

---------------------------------------------------------------------------
\* Narcon.generate_access_token(cred_info) and its legs

\* get_aws_caller_identity: the signed GetCallerIdentity request for an audience.
Signed(audience) == "aws4:" \o audience

\* What boto3.Session().get_credentials() finds in the environment: the
\* credentials of the execution role, or None (NoCredentials).
NoCredentials == [access_key |-> "", secret_key |-> "", token |-> ""]
EnvCredentials ==
    {NoCredentials, [access_key |-> "AKenv", secret_key |-> "SKenv", token |-> ""]}

\* The aws_cred argument: None, or the Credentials dict of the identity pool.
NoAwsCred == [given |-> FALSE, AccessKeyId |-> "", SecretKey |-> "", SessionToken |-> ""]
CognitoAwsCred ==
    [given |-> TRUE, AccessKeyId |-> "AKcog", SecretKey |-> "SKcog", SessionToken |-> "STcog"]
AwsCredArgs == {NoAwsCred, CognitoAwsCred}

\* Line 317, .get_frozen_credentials() of None.
FrozenError == "AttributeError: 'NoneType' object has no attribute 'get_frozen_credentials'"

\* Variant of get_aws_cred_session: without credentials in the environment,
\* anonymous ones are used.
get_aws_cred_session_anonymous(aws_cred, env) ==
    IF aws_cred.given
    THEN [access_key |-> aws_cred.AccessKeyId, secret_key |-> aws_cred.SecretKey,
          token |-> aws_cred.SessionToken]
    ELSE IF env = NoCredentials
    THEN [access_key |-> "anonymous", secret_key |-> "", token |-> ""]
    ELSE env

\* Lines 302-318: the frozen credentials of a session built from the
\* argument, or from the environment env when there is none; NoCredentials
\* stands for the AttributeError of line 317 when the environment has none.
get_aws_cred_session(aws_cred, env) ==
    IF aws_cred.given
    THEN [access_key |-> aws_cred.AccessKeyId, secret_key |-> aws_cred.SecretKey,
          token |-> aws_cred.SessionToken]
    ELSE env

\* The event of a call of get_aws_caller_identity for an audience with the
\* credentials cred: the access key it signed with, or the error.
SignEv(r, audience, cred) ==
    [Ev("sign", r, cred.access_key, audience, NoTok) EXCEPT
        !.err = IF cred = NoCredentials THEN FrozenError ELSE ""]

\* Variant of GenBranch: a mode that is not external is treated as internal.
GenBranchElseInternal(mode) == IF mode = "external" THEN "external" ELSE "internal"

\* Lines 321, 325 and 334: the branch refresh_mode selects; any mode other
\* than internal and external (None included) takes the else branch.
GenBranch(mode) ==
    CASE mode = "internal" -> "internal"
      [] mode = "external" -> "external"
      [] OTHER -> "none"

\* Lines 321-322, 325-328 and 334-335: the branch on refresh_mode.  internal
\* signs with the environment's credentials, which fails when there are
\* none; external first fetches credentials from the identity pool; any
\* other mode returns None.
GenStart(c) ==
    /\ At(c, "gen", "n0")
    /\ LET f == Top(c)
           rec == Rec(f.r)
           gen == Ev("gen", f.r, "", "", NoTok)
       IN  CASE GenBranch(rec.refresh_mode) = "internal" ->
                  \E env \in EnvCredentials :
                     LET cred == get_aws_cred_session(NoAwsCred, env)
                     IN  /\ log' = [log EXCEPT ![c] =
                                      @ \o <<gen, SignEv(f.r, rec.audience, cred)>>]
                         /\ IF cred = NoCredentials
                            THEN Raise(c, FrozenError)
                            ELSE Step(c, [f EXCEPT !.pc = "n1", !.via = Signed(rec.audience),
                                                   !.old = rec])
            [] GenBranch(rec.refresh_mode) = "external" ->
                  /\ Logged(c, gen)
                  /\ Call(c, [f EXCEPT !.pc = "e1", !.old = rec],
                          Frame("cognito", "c0", f.r, "cred"))
            [] OTHER ->
                  /\ Logged(c, gen)
                  /\ Return(c, NoRet)
    /\ UNCHANGED <<clock, stor, sess, fsTok, nextTok, narcon>>

\* Variant of GenSts: a failed request is sent a second time.
GenStsRetry(c) ==
    /\ Running(c) /\ Top(c).fn = "gen" /\ Top(c).pc \in {"n1", "e1"}
    /\ LET f == Top(c)
           subj == IF f.pc = "n1" THEN f.via ELSE Signed(SAMA_EXT_AUDIENCE)
           sign == IF f.pc = "n1" THEN <<>>
                   ELSE <<SignEv(f.r, SAMA_EXT_AUDIENCE,
                                 get_aws_cred_session(CognitoAwsCred, NoCredentials))>>
       IN  /\ log' = [log EXCEPT ![c] = @ \o sign \o <<Ev("sts", f.r, "", subj, NoTok)>>]
           /\ \/ IF \E i \in DOMAIN log[c] : log[c][i].leg = "sts" /\ log[c][i].r = f.r
                 THEN Raise(c, "FAILED TO RETRIEVE GCP STS TOKEN")
                 ELSE Step(c, f)
              \/ \E t \in {"sts", "None"} :
                    Step(c, [f EXCEPT !.pc = IF f.pc = "n1" THEN "n2" ELSE "e3",
                                      !.via = t, !.sa = NARWHAL_SA])
    /\ UNCHANGED <<clock, stor, sess, fsTok, nextTok, narcon>>

\* Lines 326-328, with the credentials get_cognito_token returned: the
\* request is signed for the fixed external audience.  Then get_gcp_sts_token
\* (lines 323 and 329): one POST to the STS endpoint.  A failed request
\* raises; a 2xx body gives .get("access_token"), which is None when the
\* field is missing.
GenSts(c) ==
    /\ Running(c) /\ Top(c).fn = "gen" /\ Top(c).pc \in {"n1", "e1"}
    /\ LET f == Top(c)
           subj == IF f.pc = "n1" THEN f.via ELSE Signed(SAMA_EXT_AUDIENCE)
           sign == IF f.pc = "n1" THEN <<>>
                   ELSE <<SignEv(f.r, SAMA_EXT_AUDIENCE,
                                 get_aws_cred_session(CognitoAwsCred, NoCredentials))>>
       IN  /\ log' = [log EXCEPT ![c] = @ \o sign \o <<Ev("sts", f.r, "", subj, NoTok)>>]
           /\ \/ Raise(c, "FAILED TO RETRIEVE GCP STS TOKEN")
              \/ \E t \in {"sts", "None"} :
                    Step(c, [f EXCEPT !.pc = IF f.pc = "n1" THEN "n2" ELSE "e3",
                                      !.via = t, !.sa = NARWHAL_SA])
    /\ UNCHANGED <<clock, stor, sess, fsTok, nextTok, narcon>>

\* Variant of GenBridge: the exchange's token goes to the final hop directly.
GenBridgeSkipped(c) ==
    /\ At(c, "gen", "e3")
    /\ LET f == Top(c)
           rec == Rec(f.r)
       IN  IF rec.sa_email = "none"
           THEN Raise(c, "SA EMAIL NOT SET")
           ELSE Step(c, [f EXCEPT !.pc = "n2", !.sa = rec.sa_email])
    /\ UNCHANGED <<clock, stor, sess, fsTok, log, nextTok, narcon>>

\* Lines 330-332: the check of sa_email, then the hop to the bridge account
\* and the subscript ["accessToken"] of its body.
GenBridge(c) ==
    /\ At(c, "gen", "e3")
    /\ LET f == Top(c)
           rec == Rec(f.r)
       IN  IF rec.sa_email = "none"
           THEN Raise(c, "SA EMAIL NOT SET") /\ UNCHANGED log
           ELSE /\ Logged(c, Ev("imp", f.r, SAMA_EXT_SA, f.via, NoTok))
                /\ \/ Raise(c, "FAILED TO GENERATE IMPERSONATED GCP TOKEN")
                   \/ Raise(c, "KeyError: accessToken")
                   \/ Step(c, [f EXCEPT !.pc = "n2", !.via = "bridge", !.sa = rec.sa_email])
    /\ UNCHANGED <<clock, stor, sess, fsTok, nextTok, narcon>>

\* gcp_impersonate_token for the final account (lines 324 and 333): one POST;
\* a failed request raises, a 2xx response gives its JSON body.
GenImpersonate(c) ==
    /\ At(c, "gen", "n2")
    /\ LET f == Top(c)
       IN  /\ Logged(c, Ev("imp", f.r, f.sa, f.via, NoTok))
           /\ \/ Raise(c, "FAILED TO GENERATE IMPERSONATED GCP TOKEN")
                 /\ UNCHANGED nextTok
              \/ /\ nextTok <= MaxTok
                 /\ nextTok' = nextTok + 1
                 /\ \E b \in Bodies(nextTok) : Step(c, [f EXCEPT !.pc = "n3", !.ret = b])
    /\ UNCHANGED <<clock, stor, sess, fsTok, narcon>>

\* Variant of WriteToken: the token is stored in a new record of that mode.
WriteTokenNewRecord(rec, body) ==
    GCPCredInfo("none", rec.refresh_mode, body.tok, rec.token_expiry)

\* Variant of WriteToken: the record keeps the token it had.
WriteTokenKept(rec, body) == rec

\* Line 336: cred_info.token = token_info["accessToken"]
WriteToken(rec, body) == [rec EXCEPT !.token = body.tok]

GenWriteToken(c) ==
    /\ At(c, "gen", "n3")
    /\ LET f == Top(c)
       IN  IF ~f.ret.hasTok
           THEN Raise(c, "KeyError: accessToken") /\ UNCHANGED <<stor, sess>>
           ELSE SetRec(f.r, WriteToken(Rec(f.r), f.ret)) /\ Step(c, [f EXCEPT !.pc = "n4"])
    /\ UNCHANGED <<clock, fsTok, log, nextTok, narcon>>

\* Variant of WriteExpiry: the record keeps the expiry it had.
WriteExpiryKept(rec, body) == rec

\* Line 337: cred_info.token_expiry = token_info["expireTime"]
WriteExpiry(rec, body) == [rec EXCEPT !.token_expiry = body.exp]

GenWriteExpiry(c) ==
    /\ At(c, "gen", "n4")
    /\ LET f == Top(c)
       IN  IF ~f.ret.hasExp
           THEN Raise(c, "KeyError: expireTime") /\ UNCHANGED <<stor, sess>>
           ELSE SetRec(f.r, WriteExpiry(Rec(f.r), f.ret)) /\ Return(c, NoRet)
    /\ UNCHANGED <<clock, fsTok, log, nextTok, narcon>>

---------------------------------------------------------------------------
\* Narcon.get_secret, Narcon.get_cognito_token, ClientAssertionCredential

\* Lines 539-541: with a session record that holds a token, the gate runs on
\* it first.  Lines 542-546: the secret-manager request, with the record's
\* token as it is now (or default credentials).
\* Variant of SecretCred: the secret client always gets default credentials.
SecretCredDefault == NoTok

SecretCred == IF sess.variant = "gcp" /\ sess.token.some THEN sess.token ELSE NoTok

SecretStart(c) ==
    /\ At(c, "secret", "s0")
    /\ sess.variant = "gcp" /\ sess.token.some
    /\ Call(c, [Top(c) EXCEPT !.pc = "s1"], Frame("gate", "g0", "sess", "gcp"))
    /\ UNCHANGED <<clock, stor, sess, fsTok, log, nextTok, narcon>>

SecretAccess(c) ==
    /\ \/ At(c, "secret", "s1")
       \/ At(c, "secret", "s0") /\ ~(sess.variant = "gcp" /\ sess.token.some)
    /\ Logged(c, Ev("secret", "sess", "", "", SecretCred))
    /\ \/ Raise(c, "SecretManagerError")
       \/ Return(c, Ret("secret"))
    /\ UNCHANGED <<clock, stor, sess, fsTok, nextTok, narcon>>

\* Lines 366-367: the two secret lookups.
CognitoSecrets(c) ==
    /\ Running(c) /\ Top(c).fn = "cognito" /\ Top(c).pc \in {"c0", "c1"}
    /\ Call(c, [Top(c) EXCEPT !.pc = IF @ = "c0" THEN "c1" ELSE "c2"],
            Frame("secret", "s0", "sess", ""))
    /\ UNCHANGED <<clock, stor, sess, fsTok, log, nextTok, narcon>>

\* Lines 369-374: get_open_id_token_for_developer_identity; with open_id the
\* token is returned.
CognitoOpenId(c) ==
    /\ At(c, "cognito", "c2")
    /\ Logged(c, Ev("cognito_id", Top(c).r, "", "", NoTok))
    /\ \/ Raise(c, "FAILED TO RETRIEVE COGNITO TOKEN")
       \/ IF Top(c).v = "open"
          THEN Return(c, Ret("oidc"))
          ELSE Step(c, [Top(c) EXCEPT !.pc = "c3"])
    /\ UNCHANGED <<clock, stor, sess, fsTok, nextTok, narcon>>

\* Lines 375-378: get_credentials_for_identity.
CognitoCredentials(c) ==
    /\ At(c, "cognito", "c3")
    /\ Logged(c, Ev("cognito_cred", Top(c).r, "", "", NoTok))
    /\ \/ Raise(c, "FAILED TO RETRIEVE COGNITO TOKEN")
       \/ Return(c, Ret("creds"))
    /\ UNCHANGED <<clock, stor, sess, fsTok, nextTok, narcon>>

\* ClientAssertionCredential(..., func=self.get_cognito_token).get_token:
\* the assertion callback, then the Azure AD token request, which gives an
\* AccessToken(token, expires_on).
AzAssertion(c) ==
    /\ At(c, "aztoken", "a0")
    /\ Call(c, [Top(c) EXCEPT !.pc = "a1"], Frame("cognito", "c0", Top(c).r, "open"))
    /\ UNCHANGED <<clock, stor, sess, fsTok, log, nextTok, narcon>>

AzToken(c) ==
    /\ At(c, "aztoken", "a1")
    /\ Logged(c, Ev("aad", Top(c).r, "", Top(c).ret.s, NoTok))
    /\ \/ Raise(c, "ClientAuthenticationError") /\ UNCHANGED nextTok
       \/ /\ nextTok <= MaxTok
          /\ nextTok' = nextTok + 1
          /\ \E t \in RespTimes : Return(c, Body(TRUE, TRUE, nextTok, t, "utc"))
    /\ UNCHANGED <<clock, stor, sess, fsTok, narcon>>

---------------------------------------------------------------------------
\* FSProxy

\* Variant of WrapperFrames: the wrapper goes to the operation directly.
WrapperFramesNoGate(cv) == <<Frame("proxy", "p1", "stor", cv)>>

\* The frames of a call of the wrapper FSProxy.__getattr__ returns (lines
\* 134-136): the wrapper, and its first statement self.pre_method(), the
\* lambda of get_storage (line 583) that calls the gate on cs.cred_info with
\* the vendor cv.
WrapperFrames(cv) ==
    <<Frame("proxy", "p1", "stor", cv), Frame("gate", "g0", "stor", cv)>>

\* The argument lists callers pass to an operation of the handle.
Args ==
    {NoArgs,
     [pos |-> <<"path">>, kw |-> {}],
     [pos |-> <<"path">>, kw |-> {<<"detail", "True">>}]}

\* What an operation of the handle returns: a value, or None.
OpReturns == {Ret("result"), NoRet}

\* Variant of WrapperArgs: the keyword arguments are dropped.
WrapperArgsPositional(args) == [args EXCEPT !.kw = {}]

\* Line 136: attr(*args, **kwargs), the arguments the wrapper hands on.
WrapperArgs(args) == args

\* A callable attribute obtained through the proxy is called with the
\* arguments a.  get_storage builds the proxy for gcp and azure only (lines
\* 582-586).
ProxyCall(c, a) ==
    /\ ~Running(c)
    /\ narcon.fs = "proxy"
    /\ stk' = [stk EXCEPT ![c] = [WrapperFrames(narcon.cs) EXCEPT ![1].args = a]]
    /\ log' = [log EXCEPT ![c] =
                 <<[Ev("wrapper", "stor", "", narcon.cs, NoTok) EXCEPT !.args = a]>>]
    /\ res' = [res EXCEPT ![c] = "run"]
    /\ out' = [out EXCEPT ![c] = NoRet]
    /\ UNCHANGED <<clock, stor, sess, fsTok, nextTok, narcon>>

\* Line 136: attr(*args, **kwargs) on fs_instance, the handle the proxy was
\* built with; the operation returns or raises.
ProxyDispatch(c) ==
    /\ At(c, "proxy", "p1")
    /\ LET e == [Ev("op", "stor", "", "", fsTok) EXCEPT !.args = WrapperArgs(Top(c).args)]
       IN  \/ \E v \in OpReturns :
                 Logged(c, [e EXCEPT !.out = v]) /\ Return(c, v)
           \/ Logged(c, [e EXCEPT !.err = "OperationError"]) /\ Raise(c, "OperationError")
    /\ UNCHANGED <<clock, stor, sess, fsTok, nextTok, narcon>>

\* Lines 131 and 139: an attribute of the handle that is not callable is
\* returned as getattr gave it; a name the handle does not have raises.
ProxyAttr(c) ==
    /\ ~Running(c)
    /\ narcon.fs = "proxy"
    /\ \/ LET v == [Ret("attr") EXCEPT !.tok = fsTok]
          IN  /\ log' = [log EXCEPT ![c] = <<[Ev("attr", "stor", "", "", fsTok) EXCEPT !.out = v]>>]
              /\ res' = [res EXCEPT ![c] = "ok"]
              /\ out' = [out EXCEPT ![c] = v]
       \/ /\ log' = [log EXCEPT ![c] =
                       <<[Ev("attr", "stor", "", "", fsTok) EXCEPT !.err = "AttributeError"]>>]
          /\ res' = [res EXCEPT ![c] = "AttributeError"]
          /\ out' = [out EXCEPT ![c] = NoRet]
    /\ UNCHANGED <<clock, stor, sess, fsTok, stk, nextTok, narcon>>

---------------------------------------------------------------------------
\* Direct calls of the public methods, and time

\* narcon.refresh_token_if_expired(cs.cred_info, v)
GateCall(c, v) ==
    /\ ~Running(c)
    /\ stk' = [stk EXCEPT ![c] = <<Frame("gate", "g0", "stor", v)>>]
    /\ log' = [log EXCEPT ![c] = <<>>]
    /\ res' = [res EXCEPT ![c] = "run"]
    /\ out' = [out EXCEPT ![c] = NoRet]
    /\ UNCHANGED <<clock, stor, sess, fsTok, nextTok, narcon>>

\* narcon.generate_access_token(cs.cred_info)
GenCall(c) ==
    /\ ~Running(c)
    /\ stor.variant = "gcp"
    /\ stk' = [stk EXCEPT ![c] = <<Frame("gen", "n0", "stor", "")>>]
    /\ log' = [log EXCEPT ![c] = <<>>]
    /\ res' = [res EXCEPT ![c] = "run"]
    /\ out' = [out EXCEPT ![c] = NoRet]
    /\ UNCHANGED <<clock, stor, sess, fsTok, nextTok, narcon>>

\* narcon.get_secret(secret_name)
SecretCall(c) ==
    /\ ~Running(c)
    /\ stk' = [stk EXCEPT ![c] = <<Frame("secret", "s0", "sess", "")>>]
    /\ log' = [log EXCEPT ![c] = <<Ev("get_secret", "sess", "", "", NoTok)>>]
    /\ res' = [res EXCEPT ![c] = "run"]
    /\ out' = [out EXCEPT ![c] = NoRet]
    /\ UNCHANGED <<clock, stor, sess, fsTok, nextTok, narcon>>

\* narcon.generate_access_token(narcon.cred_info), the call of line 172.
SessGenCall(c) ==
    /\ ~Running(c)
    /\ sess.variant = "gcp"
    /\ stk' = [stk EXCEPT ![c] = <<Frame("gen", "n0", "sess", "")>>]
    /\ log' = [log EXCEPT ![c] = <<>>]
    /\ res' = [res EXCEPT ![c] = "run"]
    /\ out' = [out EXCEPT ![c] = NoRet]
    /\ UNCHANGED <<clock, stor, sess, fsTok, nextTok, narcon>>

Tick ==
    /\ clock < MaxClock
    /\ clock' = clock + 1
    /\ UNCHANGED <<stor, sess, fsTok, stk, log, res, nextTok, out, narcon>>

---------------------------------------------------------------------------
\* The records a session starts with

\* A record as a caller or an earlier refresh left it: no token yet, a token
\* without expiry, or a token with an expiry that the clock reaches.
InitPairs ==
    {<<NoTok, NoExp>>, <<Tok(0), NoExp>>,
     <<Tok(0), Exp(1, "utc", 0)>>, <<Tok(0), Exp(1, "other", 0)>>}

StorRecords ==
    {AWSCredInfo, AZCredInfo(Tok(0), Exp(1, "utc", 0))}
    \cup {GCPCredInfo(sa, m, p[1], p[2]) : sa \in {"none", "sa"}, m \in Modes, p \in InitPairs}

\* Narcon.cred_info: None, the record nar_setup builds (internal), or one the
\* caller supplied.
SessRecords ==
    {NoCred,
     GCPCredInfo("none", "internal", Tok(0), Exp(1, "utc", 0)),
     GCPCredInfo("sa", "external", Tok(0), Exp(1, "utc", 0))}

\* cs.get_fs(): the handle is built with the record's token of that moment.
HandleToken(rec) ==
    CASE rec.variant = "gcp" -> rec.token
      [] rec.variant = "azure" -> rec.credential.token
      [] OTHER -> NoTok

\* The Narcon object: phase is "new" until __post_init__ has run, then "up",
\* or "failed" when it raised; cs is the vendor tag of its CloudStorage and fs
\* tells whether its handle is an FSProxy ("proxy") or the client ("plain").
\* client is cs.fs: 0 for None, or the number of the client construction that
\* made it (a session with a handle has the first client of its cs).
NarconObj(phase, infra, cs, fs) ==
    [phase |-> phase, infra_type |-> infra, cs |-> cs, fs |-> fs,
     client |-> IF fs = "none" THEN 0 ELSE 1]

\* Variant of Wrapped: every handle is wrapped.
WrappedAlways(cv) == TRUE

\* Line 584: if cv in {"gcp", "azure"}.
Wrapped(cv) == cv \in {"gcp", "azure"}

\* Lines 582-586: the handle is an FSProxy around the client when the vendor
\* is gcp or azure, and the client itself otherwise.
FsKind(cv) == IF Wrapped(cv) THEN "proxy" ELSE "plain"

\* A session after get_storage(set_self=True): nar_setup sets infra_type when
\* it builds the session's record.
StartedNarcon(st, se) ==
    NarconObj("up",
              IF se.variant = "gcp" /\ se.refresh_mode = "internal" THEN "narwhal" ELSE "none",
              st.variant, FsKind(st.variant))

---------------------------------------------------------------------------
\* Narcon.__post_init__ and Narcon.nar_setup

\* The descriptor file cred.json: absent, or a JSON object in which a key
\* that is missing (or empty) reads as "".
NoMeta == [exists |-> FALSE, infra_type |-> "", cloud |-> ""]
Meta(infra, cloud) == [exists |-> TRUE, infra_type |-> infra, cloud |-> cloud]
Descriptors ==
    {NoMeta} \cup {Meta(i, cl) : i \in {"", "narwhal", "giver"}, cl \in {"", "aws"}}

\* The record a caller passes to Narcon(cred_info=...): none, or one with a
\* token that expires at instant 1.
SuppliedRecords == {NoCred, GCPCredInfo("none", "internal", Tok(0), Exp(1, "utc", 0))}

SetupError == "INFRA_TYPE OR CLOUD NOT FOUND IN SETUP FILE!"

\* Variant of HasKeys: only infra_type is required.
HasKeysInfraOnly(meta) == meta.infra_type # ""

\* Line 168: (infra_type := meta.get("infra_type")) and (cv := meta.get("cloud"))
HasKeys(meta) == meta.infra_type # "" /\ meta.cloud # ""

\* Narcon(cred_info=given) with the descriptor file meta on disk: a new
\* object, whose __post_init__ calls nar_setup (lines 154-156).
NarSetupCall(c, meta, given) ==
    /\ ~Running(c)
    /\ narcon.phase = "new"
    /\ narcon' = NarconObj("new", "none", "none", "none")
    /\ sess' = given
    /\ stk' = [stk EXCEPT ![c] = <<[Frame("nar_setup", "u0", "sess", "") EXCEPT !.meta = meta]>>]
    /\ log' = [log EXCEPT ![c] = <<Ev("nar_setup", "sess", "", "", NoTok)>>]
    /\ res' = [res EXCEPT ![c] = "run"]
    /\ out' = [out EXCEPT ![c] = NoRet]
    /\ UNCHANGED <<clock, stor, fsTok, nextTok>>

\* Lines 165-173: with a descriptor file and no record, both keys are
\* required; then infra_type is kept, the session's record is built with
\* refresh_mode internal and the pipeline is called on it.
NarSetupRead(c) ==
    /\ At(c, "nar_setup", "u0")
    /\ LET f == Top(c)
       IN  IF f.meta.exists /\ sess.variant = "none"
           THEN IF HasKeys(f.meta)
                THEN /\ narcon' = [narcon EXCEPT !.infra_type = f.meta.infra_type]
                     /\ sess' = GCPCredInfo("none", "internal", NoTok, NoExp)
                     /\ Call(c, [f EXCEPT !.pc = "u1"], Frame("gen", "n0", "sess", ""))
                ELSE /\ Raise(c, SetupError)
                     /\ UNCHANGED <<sess, narcon>>
           ELSE /\ Return(c, NoRet)
                /\ narcon' = [narcon EXCEPT !.phase = "up"]
                /\ UNCHANGED sess
    /\ UNCHANGED <<clock, stor, fsTok, log, nextTok>>

\* Line 172 returned: the object is constructed.
NarSetupDone(c) ==
    /\ At(c, "nar_setup", "u1")
    /\ Return(c, NoRet)
    /\ narcon' = [narcon EXCEPT !.phase = "up"]
    /\ UNCHANGED <<clock, stor, sess, fsTok, log, nextTok>>

---------------------------------------------------------------------------
\* Narcon.get_storage, Narcon.remote_storage, Narcon.get_sama_acc_info,
\* CloudStorage.get_fs and CloudStorageFactory.create

\* The vendor tags callers pass: the valid ones and one that is not.
VendorTags == Vendors \cup {"bogus"}

StorageError == "FAILED TO SETUP ClOUD STORAGE, PLEASE CHECK YOUR INPUTS!"

\* narcon.get_storage(cloud_vendor=cv, client_id=..., set_self=True), with or
\* without a client id (line 577-578: remote_storage is called first).
GetStorageCall(c, cv, client) ==
    /\ ~Running(c)
    /\ narcon.phase = "up" /\ narcon.fs = "none"
    /\ LET a == [pos |-> <<>>, kw |-> IF client THEN {<<"client_id", "cl">>} ELSE {}]
       IN  /\ stk' = [stk EXCEPT ![c] =
                        <<Frame("get_storage", "t1", "stor", cv),
                          [Frame("remote_storage", "r0", "stor", cv) EXCEPT !.args = a]>>]
           /\ log' = [log EXCEPT ![c] =
                        <<[Ev("get_storage", "stor", "", cv, NoTok) EXCEPT !.args = a]>>]
    /\ res' = [res EXCEPT ![c] = "run"]
    /\ out' = [out EXCEPT ![c] = NoRet]
    /\ UNCHANGED <<clock, stor, sess, fsTok, nextTok, narcon>>

\* Lines 447-473: the branch on the vendor and the client id.  aws: a
\* CloudStorage with an AWSCredInfo, and on narwhal infrastructure the lookup
\* of the AWS secret.  With a client id: a CloudStorage of that vendor tag
\* (the dataclass accepts any tag), and for gcp and azure the account lookup.
\* Otherwise cs stays None.
RemoteStorageStart(c) ==
    /\ At(c, "remote_storage", "r0")
    /\ LET f == Top(c)
       IN  CASE f.v = "aws" ->
                  /\ stor' = AWSCredInfo
                  /\ IF narcon.infra_type = "narwhal"
                     THEN Call(c, [f EXCEPT !.pc = "r3"], Frame("secret", "s0", "sess", ""))
                     ELSE Return(c, Ret("cs"))
            [] f.v # "aws" /\ f.args.kw # {} ->
                  /\ stor' = NoCred
                  /\ IF f.v \in {"gcp", "azure"}
                     THEN Call(c, [f EXCEPT !.pc = "r1"], Frame("acc_info", "i0", "stor", f.v))
                     ELSE Return(c, Ret("cs"))
            [] OTHER ->
                  /\ UNCHANGED stor
                  /\ Return(c, NoRet)
    /\ UNCHANGED <<clock, sess, fsTok, log, nextTok, narcon>>

\* Variant of RemoteStorageRecord: the gcp record is built and returned
\* without a call of the pipeline.
RemoteStorageRecordNoRefresh(c) ==
    /\ At(c, "remote_storage", "r1")
    /\ LET f == Top(c)
       IN  IF f.v = "gcp"
           THEN /\ stor' = GCPCredInfo(f.ret.s, "external", NoTok, NoExp)
                /\ Step(c, [f EXCEPT !.pc = "r3"])
           ELSE /\ UNCHANGED stor
                /\ Call(c, [f EXCEPT !.pc = "r2"], Frame("aztoken", "a0", "stor", ""))
    /\ UNCHANGED <<clock, sess, fsTok, log, nextTok, narcon>>

\* Lines 469-470 (gcp): the record is built with the account's email and
\* refresh_mode external, and the pipeline is called on it.  Lines 473-475
\* (azure): the token request of the client-assertion credential.
RemoteStorageRecord(c) ==
    /\ At(c, "remote_storage", "r1")
    /\ LET f == Top(c)
       IN  IF f.v = "gcp"
           THEN /\ stor' = GCPCredInfo(f.ret.s, "external", NoTok, NoExp)
                /\ Call(c, [f EXCEPT !.pc = "r3"], Frame("gen", "n0", "stor", ""))
           ELSE /\ UNCHANGED stor
                /\ Call(c, [f EXCEPT !.pc = "r2"], Frame("aztoken", "a0", "stor", ""))
    /\ UNCHANGED <<clock, sess, fsTok, log, nextTok, narcon>>

\* Lines 476-481: cs.cred_info = AZCredInfo(credential=AZTokenCredential(az_token)).
RemoteStorageAzure(c) ==
    /\ At(c, "remote_storage", "r2")
    /\ stor' = AZCredInfo(Top(c).ret.tok, Top(c).ret.exp)
    /\ Return(c, Ret("cs"))
    /\ UNCHANGED <<clock, sess, fsTok, log, nextTok, narcon>>

\* Line 482: return cs.
RemoteStorageReturn(c) ==
    /\ At(c, "remote_storage", "r3")
    /\ Return(c, Ret("cs"))
    /\ UNCHANGED <<clock, stor, sess, fsTok, log, nextTok, narcon>>

\* get_sama_acc_info, lines 342-343: the two secret lookups.
AccInfoSecrets(c) ==
    /\ Running(c) /\ Top(c).fn = "acc_info" /\ Top(c).pc \in {"i0", "i1"}
    /\ Call(c, [Top(c) EXCEPT !.pc = IF @ = "i0" THEN "i1" ELSE "i2"],
            Frame("secret", "s0", "sess", ""))
    /\ UNCHANGED <<clock, stor, sess, fsTok, log, nextTok, narcon>>

\* Lines 347-360: the GET of the account API.  A failed request or an empty
\* answer raises; for gcp the entry's serviceAccountEmail is returned, None
\* when the entry has none; for azure the ids of the account.
AccInfoGet(c) ==
    /\ At(c, "acc_info", "i2")
    /\ Logged(c, Ev("acc_info", "stor", "", Top(c).v, NoTok))
    /\ \/ Raise(c, "COULD NOT RETRIEVE SAMA ACCOUNT INFO!")
       \/ IF Top(c).v = "gcp"
          THEN \E sa \in {"sa", "none"} : Return(c, Ret(sa))
          ELSE Return(c, Ret("az"))
    /\ UNCHANGED <<clock, stor, sess, fsTok, nextTok, narcon>>

\* multicloud.py line 69: the message of set_fs for a tag without a setter.
UnsupportedVendor(cv) == Message(<<"Unsupported cloud vendor: ", cv>>)

\* multicloud.py line 65: getattr(self, f"_set_{self.cloud_vendor}_fs", None),
\* which finds _set_aws_fs, _set_gcp_fs or _set_azure_fs.
HasSetter(cv) == cv \in {"aws", "gcp", "azure"}

\* Lines 579-591: without a cs the call raises.  Otherwise cs.get_fs() builds
\* the vendor's client with the record's token of this moment
\* (CloudStorage.set_fs, multicloud.py lines 64-69, raises for a tag without a
\* setter), the client is wrapped in an FSProxy when the vendor is gcp or
\* azure, and cs and fs are stored in the session.
GetStorageFs(c) ==
    /\ At(c, "get_storage", "t1")
    /\ LET f == Top(c)
       IN  IF f.ret = NoRet
           THEN /\ Raise(c, StorageError)
                /\ UNCHANGED <<fsTok, narcon>>
           ELSE IF ~HasSetter(f.v)
           THEN /\ stk' = [stk EXCEPT ![c] = <<>>]
                /\ res' = [res EXCEPT ![c] = "NotImplementedError"]
                /\ out' = [out EXCEPT ![c] = UnsupportedVendor(f.v)]
                /\ UNCHANGED <<fsTok, narcon>>
           ELSE /\ fsTok' = HandleToken(stor)
                /\ narcon' = [narcon EXCEPT !.cs = f.v, !.fs = FsKind(f.v), !.client = 1]
                /\ Return(c, Ret(FsKind(f.v)))
    /\ UNCHANGED <<clock, stor, sess, log, nextTok>>

\* multicloud.py lines 76-82, 91-96 and 105-113: the client is built with the
\* record's token when the record is of the vendor's class (isinstance), and
\* without one otherwise.  The vendor's package is installed.
ClientToken(cv, rec) == IF rec.variant = cv THEN HandleToken(rec) ELSE NoTok

\* A storage client: the number of its construction and the token it was
\* built with.
Handle(id, tok) == [Ret("fs") EXCEPT !.fs = id, !.tok = tok]

\* Variant of GetFs: a client is built at every call.
GetFsRebuilt(c) ==
    /\ ~Running(c)
    /\ LET e == Ev("get_fs", "stor", "", narcon.cs, NoTok)
           tok == ClientToken(narcon.cs, stor)
       IN  IF ~HasSetter(narcon.cs)
           THEN /\ log' = [log EXCEPT ![c] = <<[e EXCEPT !.err = "NotImplementedError"]>>]
                /\ res' = [res EXCEPT ![c] = "NotImplementedError"]
                /\ out' = [out EXCEPT ![c] = UnsupportedVendor(narcon.cs)]
                /\ UNCHANGED <<narcon, fsTok>>
           ELSE /\ narcon.client < MaxClients
                /\ narcon' = [narcon EXCEPT !.client = @ + 1]
                /\ fsTok' = tok
                /\ log' = [log EXCEPT ![c] = <<[e EXCEPT !.out = Handle(narcon.client + 1, tok)]>>]
                /\ res' = [res EXCEPT ![c] = "ok"]
                /\ out' = [out EXCEPT ![c] = Handle(narcon.client + 1, tok)]
    /\ UNCHANGED <<clock, stor, sess, stk, nextTok>>

\* cs.get_fs() (multicloud.py lines 59-62): if not self.fs, set_fs() is
\* called, which raises for a tag without a setter; then self.fs is returned.
GetFs(c) ==
    /\ ~Running(c)
    /\ LET e == Ev("get_fs", "stor", "", narcon.cs, NoTok)
           tok == ClientToken(narcon.cs, stor)
       IN  IF narcon.client # 0
           THEN /\ log' = [log EXCEPT ![c] = <<[e EXCEPT !.out = Handle(narcon.client, fsTok)]>>]
                /\ res' = [res EXCEPT ![c] = "ok"]
                /\ out' = [out EXCEPT ![c] = Handle(narcon.client, fsTok)]
                /\ UNCHANGED <<narcon, fsTok>>
           ELSE IF ~HasSetter(narcon.cs)
           THEN /\ log' = [log EXCEPT ![c] = <<[e EXCEPT !.err = "NotImplementedError"]>>]
                /\ res' = [res EXCEPT ![c] = "NotImplementedError"]
                /\ out' = [out EXCEPT ![c] = UnsupportedVendor(narcon.cs)]
                /\ UNCHANGED <<narcon, fsTok>>
           ELSE /\ narcon' = [narcon EXCEPT !.client = 1]
                /\ fsTok' = tok
                /\ log' = [log EXCEPT ![c] = <<[e EXCEPT !.out = Handle(1, tok)]>>]
                /\ res' = [res EXCEPT ![c] = "ok"]
                /\ out' = [out EXCEPT ![c] = Handle(1, tok)]
    /\ UNCHANGED <<clock, stor, sess, stk, nextTok>>

\* cs.set_fs() (multicloud.py lines 64-69): the setter of the vendor builds a
\* new client and assigns it to self.fs; a tag without a setter raises.
SetFs(c) ==
    /\ ~Running(c)
    /\ LET e == Ev("set_fs", "stor", "", narcon.cs, NoTok)
       IN  IF ~HasSetter(narcon.cs)
           THEN /\ log' = [log EXCEPT ![c] = <<[e EXCEPT !.err = "NotImplementedError"]>>]
                /\ res' = [res EXCEPT ![c] = "NotImplementedError"]
                /\ out' = [out EXCEPT ![c] = UnsupportedVendor(narcon.cs)]
                /\ UNCHANGED <<narcon, fsTok>>
           ELSE /\ narcon.client < MaxClients
                /\ narcon' = [narcon EXCEPT !.client = @ + 1]
                /\ fsTok' = ClientToken(narcon.cs, stor)
                /\ log' = [log EXCEPT ![c] = <<e>>]
                /\ res' = [res EXCEPT ![c] = "ok"]
                /\ out' = [out EXCEPT ![c] = NoRet]
    /\ UNCHANGED <<clock, stor, sess, stk, nextTok>>

\* cs.cred_info = rec: the record of a CloudStorage is a public field, which
\* its owner assigns (libnar.py lines 454, 469 and 476).
SetCredInfo(c, rec) ==
    /\ ~Running(c)
    /\ stor' = rec
    /\ log' = [log EXCEPT ![c] = <<Ev("set_cred_info", "stor", "", rec.variant, NoTok)>>]
    /\ res' = [res EXCEPT ![c] = "ok"]
    /\ out' = [out EXCEPT ![c] = NoRet]
    /\ UNCHANGED <<clock, sess, fsTok, stk, nextTok, narcon>>

\* An operation of a handle that is not wrapped: the client's method is
\* called directly.
PlainCall(c, a) ==
    /\ ~Running(c)
    /\ narcon.fs = "plain"
    /\ LET e == [Ev("op", "stor", "", narcon.cs, fsTok) EXCEPT !.args = a]
       IN  \/ \E v \in OpReturns :
                 /\ log' = [log EXCEPT ![c] = <<[e EXCEPT !.out = v]>>]
                 /\ res' = [res EXCEPT ![c] = "ok"]
                 /\ out' = [out EXCEPT ![c] = v]
           \/ /\ log' = [log EXCEPT ![c] = <<[e EXCEPT !.err = "OperationError"]>>]
              /\ res' = [res EXCEPT ![c] = "OperationError"]
              /\ out' = [out EXCEPT ![c] = NoRet]
    /\ UNCHANGED <<clock, stor, sess, fsTok, stk, nextTok, narcon>>

\* CloudStorageFactory.create(cv) (multicloud.py lines 44-47): a tag outside
\* VALID_CLOUD_VENDORS raises ValueError(f"Invalid cloud vendor: {cv}!"),
\* otherwise the CloudStorage is returned.
FactoryCreate(c, cv) ==
    /\ ~Running(c)
    /\ log' = [log EXCEPT ![c] = <<Ev("create", "", "", cv, NoTok)>>]
    /\ IF cv \notin Vendors
       THEN /\ res' = [res EXCEPT ![c] = "ValueError"]
            /\ out' = [out EXCEPT ![c] = Message(<<"Invalid cloud vendor: ", cv, "!">>)]
       ELSE /\ res' = [res EXCEPT ![c] = "ok"]
            /\ out' = [out EXCEPT ![c] = Ret("CloudStorage")]
    /\ UNCHANGED <<clock, stor, sess, fsTok, stk, nextTok, narcon>>

---------------------------------------------------------------------------
\* Narcon.get_aws_caller_identity and Narcon.get_aws_cred_session

Header(k, v) == [key |-> k, value |-> v]

RECURSIVE InOrder(_, _)
\* The headers hs whose key is in names, in the order of names.
InOrder(names, hs) ==
    IF names = <<>> THEN <<>>
    ELSE SelectSeq(hs, LAMBDA h : h.key = Head(names)) \o InOrder(Tail(names), hs)

RECURSIVE Joined(_)
\* The headers as one string, "key:value;" each.
Joined(hs) ==
    IF hs = <<>> THEN ""
    ELSE Head(hs).key \o ":" \o Head(hs).value \o ";" \o Joined(Tail(hs))

\* The header names SigV4 signs, in the order of their lower-case names.
SignedHeaderNames ==
    <<"Host", "X-Amz-Date", "X-Amz-Security-Token", "x-goog-cloud-target-resource">>

AWS_US_REGION == "us-east-1"

\* The signature of SigV4: a keyed hash of the method, the url and the
\* canonical headers, for the scope of a service and a region.
Signature(secret_key, service, region, method, url, canonical) ==
    "hmac(" \o secret_key \o "," \o service \o "/" \o region \o "," \o method \o ","
        \o url \o "," \o canonical \o ")"

\* SigV4Auth(temp_cred, "sts", AWS_US_REGION).add_auth(request), line 396:
\* X-Amz-Date with the current time, X-Amz-Security-Token when the
\* credentials have a session token, and Authorization with the access key
\* and the signature over the headers the request has at that moment.
SigV4Auth(cred, service, region, t, request) ==
    LET hs == request.headers \o <<Header("X-Amz-Date", ToString(t))>>
                 \o (IF cred.token # "" THEN <<Header("X-Amz-Security-Token", cred.token)>>
                     ELSE <<>>)
        signature == Signature(cred.secret_key, service, region, request.method,
                               request.url, Joined(InOrder(SignedHeaderNames, hs)))
    IN  [request EXCEPT !.headers =
            hs \o <<Header("Authorization", cred.access_key \o "/" \o signature)>>]

\* json.dumps(token, separators=(",", ":"), sort_keys=True): the members in
\* the order of their keys, the list of headers in its own order.
Dumps(token) ==
    <<<<"headers", token.headers>>, <<"method", token.method>>, <<"url", token.url>>>>

\* json.loads of that text.
Loads(text) ==
    [url |-> text[3][2], method |-> text[2][2], headers |-> text[1][2]]

\* urllib.parse.quote and unquote.
Quote(text) == [quoted |-> text]
Unquote(q) == q.quoted

StsUrl == "https://sts.amazonaws.com/?Action=GetCallerIdentity&Version=2011-06-15"

\* Variant of get_aws_caller_identity: the request carries a header that
\* counts the requests signed so far.
get_aws_caller_identity_counted(audience, cred, t) ==
    LET request == [method |-> "POST", url |-> StsUrl,
                    headers |-> <<Header("Host", "sts.amazonaws.com"),
                                  Header("x-goog-cloud-target-resource", audience),
                                  Header("X-Request-Count",
                                         ToString(Cardinality({c \in Callers : log[c] # <<>>})))>>]
        signed == SigV4Auth(cred, "sts", AWS_US_REGION, t, request)
    IN  Quote(Dumps([url |-> signed.url, method |-> signed.method,
                     headers |-> signed.headers]))

\* Variant of get_aws_caller_identity: the audience header is put on the
\* request after it was signed.
get_aws_caller_identity_header_late(audience, cred, t) ==
    LET request == [method |-> "POST", url |-> StsUrl,
                    headers |-> <<Header("Host", "sts.amazonaws.com")>>]
        signed == SigV4Auth(cred, "sts", AWS_US_REGION, t, request)
    IN  Quote(Dumps([url |-> signed.url, method |-> signed.method,
                     headers |-> <<signed.headers[1],
                                   Header("x-goog-cloud-target-resource", audience)>>
                                 \o Tail(signed.headers)]))

\* Lines 382-404, at time t with the frozen credentials cred: the request
\* with Host and x-goog-cloud-target-resource is signed, and the token is the
\* quoted JSON of its url, method and headers.
get_aws_caller_identity(audience, cred, t) ==
    LET request == [method |-> "POST", url |-> StsUrl,
                    headers |-> <<Header("Host", "sts.amazonaws.com"),
                                  Header("x-goog-cloud-target-resource", audience)>>]
        signed == SigV4Auth(cred, "sts", AWS_US_REGION, t, request)
    IN  Quote(Dumps([url |-> signed.url, method |-> signed.method,
                     headers |-> signed.headers]))

\* The audiences the pipeline signs for.
Audiences == {"aud", SAMA_EXT_AUDIENCE}

\* narcon.get_aws_caller_identity(audience=audience, aws_cred=aws_cred), with
\* env in the environment: line 394 raises when there are no credentials, and
\* otherwise the token is returned.
SignCall(c, audience, aws_cred, env) ==
    /\ ~Running(c)
    /\ LET cred == get_aws_cred_session(aws_cred, env)
           token == [Ret("token") EXCEPT
                        !.signed = get_aws_caller_identity(audience, cred, clock)]
       IN  IF cred = NoCredentials
           THEN /\ log' = [log EXCEPT ![c] =
                             <<[SignEv("", audience, cred) EXCEPT !.now = clock]>>]
                /\ out' = [out EXCEPT ![c] = NoRet]
                /\ res' = [res EXCEPT ![c] = FrozenError]
           ELSE /\ log' = [log EXCEPT ![c] =
                             <<[SignEv("", audience, cred) EXCEPT
                                   !.now = clock, !.out = token]>>]
                /\ out' = [out EXCEPT ![c] = token]
                /\ res' = [res EXCEPT ![c] = "ok"]
    /\ UNCHANGED <<clock, stor, sess, fsTok, stk, nextTok, narcon>>

---------------------------------------------------------------------------
\* Specifications

Init ==
    /\ clock = 0
    /\ stor \in StorRecords
    /\ sess \in SessRecords
    /\ fsTok = HandleToken(stor)
    /\ stk = [c \in Callers |-> <<>>]
    /\ log = [c \in Callers |-> <<>>]
    /\ res = [c \in Callers |-> "new"]
    /\ nextTok = 1
    /\ out = [c \in Callers |-> NoRet]
    /\ narcon = StartedNarcon(stor, sess)

\* One thread, the entry points of the gate, the pipeline and the proxy,
\* every record.
Next ==
    \/ Tick
    \/ \E c \in {"c1"} :
          \/ ProxyCall(c, NoArgs)
          \/ ProxyDispatch(c)
          \/ GenCall(c)
          \/ \E v \in Vendors : GateCall(c, v)
          \/ GateRead(c)
          \/ GateCompare(c)
          \/ GateFinish(c)
          \/ GenStart(c)
          \/ GenSts(c)
          \/ GenBridge(c)
          \/ GenImpersonate(c)
          \/ GenWriteToken(c)
          \/ GenWriteExpiry(c)
          \/ SecretStart(c)
          \/ SecretAccess(c)
          \/ CognitoSecrets(c)
          \/ CognitoOpenId(c)
          \/ CognitoCredentials(c)
          \/ AzAssertion(c)
          \/ AzToken(c)

Spec == Init /\ [][Next]_vars

\* A session from its construction on: nar_setup, one get_storage, then
\* operations of the handle; and the storage factory.
InitStorage ==
    /\ clock = 0
    /\ stor = NoCred
    /\ sess = NoCred
    /\ fsTok = NoTok
    /\ stk = [c \in Callers |-> <<>>]
    /\ log = [c \in Callers |-> <<>>]
    /\ res = [c \in Callers |-> "new"]
    /\ nextTok = 1
    /\ out = [c \in Callers |-> NoRet]
    /\ narcon = NarconObj("new", "none", "none", "none")

NextStorage ==
    \/ Tick
    \/ \E c \in {"c1"} :
          \/ \E m \in Descriptors, g \in SuppliedRecords : NarSetupCall(c, m, g)
          \/ NarSetupRead(c)
          \/ NarSetupDone(c)
          \/ \E cv \in VendorTags, cl \in BOOLEAN : GetStorageCall(c, cv, cl)
          \/ RemoteStorageStart(c)
          \/ RemoteStorageRecord(c)
          \/ RemoteStorageAzure(c)
          \/ RemoteStorageReturn(c)
          \/ AccInfoSecrets(c)
          \/ AccInfoGet(c)
          \/ GetStorageFs(c)
          \/ \E cv \in VendorTags : FactoryCreate(c, cv)
          \/ \E a \in Args : PlainCall(c, a)
          \/ \E a \in Args : ProxyCall(c, a)
          \/ ProxyDispatch(c)
          \/ ProxyAttr(c)
          \/ GateRead(c)
          \/ GateCompare(c)
          \/ GateFinish(c)
          \/ GenStart(c)
          \/ GenSts(c)
          \/ GenBridge(c)
          \/ GenImpersonate(c)
          \/ GenWriteToken(c)
          \/ GenWriteExpiry(c)
          \/ SecretStart(c)
          \/ SecretAccess(c)
          \/ CognitoSecrets(c)
          \/ CognitoOpenId(c)
          \/ CognitoCredentials(c)
          \/ AzAssertion(c)
          \/ AzToken(c)

SpecStorage == InitStorage /\ [][NextStorage]_vars

\* A session with a record of its own, whatever the caller supplied: the
\* secret lookup and the pipeline are called on it.
SecretSessRecords ==
    {NoCred} \cup {GCPCredInfo(sa, m, p[1], p[2]) :
                      sa \in {"none", "sa"}, m \in Modes, p \in InitPairs}

InitSecret ==
    /\ clock = 0
    /\ stor = NoCred
    /\ sess \in SecretSessRecords
    /\ fsTok = NoTok
    /\ stk = [c \in Callers |-> <<>>]
    /\ log = [c \in Callers |-> <<>>]
    /\ res = [c \in Callers |-> "new"]
    /\ nextTok = 1
    /\ out = [c \in Callers |-> NoRet]
    /\ narcon = NarconObj("up", "none", "none", "none")

NextSecret ==
    \/ Tick
    \/ \E c \in {"c1"} :
          \/ SecretCall(c)
          \/ SessGenCall(c)
          \/ SecretStart(c)
          \/ SecretAccess(c)
          \/ GateRead(c)
          \/ GateCompare(c)
          \/ GateFinish(c)
          \/ GenStart(c)
          \/ GenSts(c)
          \/ GenBridge(c)
          \/ GenImpersonate(c)
          \/ GenWriteToken(c)
          \/ GenWriteExpiry(c)
          \/ CognitoSecrets(c)
          \/ CognitoOpenId(c)
          \/ CognitoCredentials(c)

SpecSecret == InitSecret /\ [][NextSecret]_vars

\* A CloudStorage object as CloudStorage(cloud_vendor=cv, cred_info=rec)
\* gives it, with fs None: its get_fs and set_fs, and assignments of its
\* record.
FsRecords ==
    {NoCred, AWSCredInfo, AZCredInfo(Tok(0), Exp(1, "utc", 0)),
     GCPCredInfo("sa", "external", NoTok, NoExp),
     GCPCredInfo("sa", "external", Tok(0), Exp(1, "utc", 0)),
     GCPCredInfo("sa", "external", Tok(1), Exp(2, "utc", 1))}

InitFs ==
    /\ clock = 0
    /\ stor \in FsRecords
    /\ sess = NoCred
    /\ fsTok = NoTok
    /\ stk = [c \in Callers |-> <<>>]
    /\ log = [c \in Callers |-> <<>>]
    /\ res = [c \in Callers |-> "new"]
    /\ nextTok = 1
    /\ out = [c \in Callers |-> NoRet]
    /\ narcon \in {NarconObj("up", "none", cv, "none") : cv \in VendorTags}

NextFs ==
    \E c \in {"c1"} :
       \/ GetFs(c)
       \/ SetFs(c)
       \/ \E rec \in FsRecords : SetCredInfo(c, rec)

SpecFs == InitFs /\ [][NextFs]_vars

\* Two callers of the signing method of a constructed session.
InitSign ==
    /\ clock = 0
    /\ stor = NoCred
    /\ sess = NoCred
    /\ fsTok = NoTok
    /\ stk = [c \in Callers |-> <<>>]
    /\ log = [c \in Callers |-> <<>>]
    /\ res = [c \in Callers |-> "new"]
    /\ nextTok = 1
    /\ out = [c \in Callers |-> NoRet]
    /\ narcon = NarconObj("up", "none", "none", "none")

NextSign ==
    \/ Tick
    \/ \E c \in Callers, a \in Audiences, g \in AwsCredArgs, env \in EnvCredentials :
          SignCall(c, a, g, env)

SpecSign == InitSign /\ [][NextSign]_vars

\* Two threads that share one GCP storage session and call operations
\* through its proxy: a record whose token expires at instant 1, in a session
\* without a record of its own.
ConcRecords ==
    {GCPCredInfo("sa", m, Tok(0), Exp(1, "utc", 0)) : m \in {"internal", "external"}}

InitConc ==
    /\ clock = 0
    /\ stor \in ConcRecords
    /\ sess = NoCred
    /\ fsTok = HandleToken(stor)
    /\ stk = [c \in Callers |-> <<>>]
    /\ log = [c \in Callers |-> <<>>]
    /\ res = [c \in Callers |-> "new"]
    /\ nextTok = 1
    /\ out = [c \in Callers |-> NoRet]
    /\ narcon = StartedNarcon(stor, sess)

NextConc ==
    \/ Tick
    \/ \E c \in Callers :
          \/ ProxyCall(c, NoArgs)
          \/ ProxyDispatch(c)
          \/ GateRead(c)
          \/ GateCompare(c)
          \/ GateFinish(c)
          \/ GenStart(c)
          \/ GenSts(c)
          \/ GenBridge(c)
          \/ GenImpersonate(c)
          \/ GenWriteToken(c)
          \/ GenWriteExpiry(c)
          \/ SecretAccess(c)
          \/ CognitoSecrets(c)
          \/ CognitoOpenId(c)
          \/ CognitoCredentials(c)

SpecConc == InitConc /\ [][NextConc]_vars

---------------------------------------------------------------------------
\* Properties

FramesOf(c) == {stk[c][i] : i \in 1..Len(stk[c])}
Idx(c, leg, r) == {i \in DOMAIN log[c] : log[c][i].leg = leg /\ log[c][i].r = r}
IsError(x) == x \notin {"new", "run", "ok"}
RecNext(r) == IF r = "stor" THEN stor' ELSE sess'
NetCallsNext(c) == SelectSeq(log'[c], LAMBDA e : e.leg \in NetLegs)
Records == {"stor", "sess"}

\* c's gate on record r found expiry e reached at instant t and called the
\* pipeline, which has not returned yet.
ObservedExpired(c, r, e, t) ==
    \E f \in FramesOf(c) : f.fn = "gate" /\ f.pc = "g2" /\ f.r = r /\ f.exp = e /\ f.now = t

\* c is executing generate_access_token on record r.
InPipeline(c, r) == \E f \in FramesOf(c) : f.fn = "gen" /\ f.r = r

\* C1: two callers whose gates found the same record expired at the same
\* instant send, together, at most one request through the exchange
\* pipeline (single flight).
C1_SingleFlight ==
    \A c1, c2 \in Callers : \A t \in 0..MaxClock :
        (c1 # c2 /\ ObservedExpired(c1, "stor", stor.token_expiry, t)
                 /\ ObservedExpired(c2, "stor", stor.token_expiry, t))
        => Cardinality(Idx(c1, "sts", "stor")) + Cardinality(Idx(c2, "sts", "stor")) <= 1

\* C2: at any time at most one caller is executing the refresh pipeline on a
\* given record.
C2_OneRefreshInFlight ==
    \A r \in Records : Cardinality({c \in Callers : InPipeline(c, r)}) <= 1

\* C3: whenever the proxy dispatches an operation to the storage handle after
\* the gate of that call ran the refresh pipeline, the token the handle was
\* built with is the record's current token.
C3_HandleHoldsCurrentToken ==
    [][\A c \in Callers :
          (ProxyDispatch(c) /\ Idx(c, "gen", "stor") # {})
          => fsTok = HandleToken(stor)]_vars

\* C4: when an operation ends with an error, every record on which it had a
\* refresh attempt under way has the token and the expiry it had when that
\* attempt started.
C4_FailureLeavesRecord ==
    [][\A c \in Callers :
          (Running(c) /\ stk'[c] = <<>> /\ IsError(res'[c]))
          => \A f \in FramesOf(c) :
                (f.fn = "gen" /\ f.pc # "n0")
                => /\ RecNext(f.r).token = f.old.token
                   /\ RecNext(f.r).token_expiry = f.old.token_expiry]_vars

\* C5: in every state, a GCP record that holds a token and an expiry holds
\* the pair of one response.
C5_PairFromOneResponse ==
    \A r \in Records :
        (Rec(r).variant = "gcp" /\ Rec(r).token.some /\ Rec(r).token_expiry.some)
        => Rec(r).token.id = Rec(r).token_expiry.src

\* c's gate, called for the given vendor, is at its comparison and takes it.
GateCompares(c, vendor) ==
    At(c, "gate", "g1") /\ Top(c).v = vendor /\ stk'[c] # stk[c]

\* C6: with a UTC expiry, the gate calls the refresh pipeline on the record
\* when the expiry is at or before the current time (the call raises only at
\* the interpreter's recursion limit); when the expiry is after the current
\* time it returns, having sent no request and changed no record.
C6_GateComparesExpiry ==
    [][\A c \in Callers :
          (GateCompares(c, "gcp") /\ Top(c).exp.tz = "utc")
          => IF Top(c).exp.t <= clock
             THEN \/ res'[c] = "RecursionError"
                  \/ /\ Len(stk'[c]) = Len(stk[c]) + 1
                     /\ stk'[c][Len(stk'[c])] = Frame("gen", "n0", Top(c).r, "")
             ELSE /\ Len(stk'[c]) = Len(stk[c]) - 1
                  /\ res'[c] \in {"run", "ok"}
                  /\ log[c][Len(log[c])] = Ev("gate", Top(c).r, "", "gcp", NoTok)
                  /\ UNCHANGED <<log, stor, sess, nextTok>>]_vars

\* The gate found an expiry one second in the past and its pipeline runs.
C6_Witness ==
    \E c \in Callers : \E f \in FramesOf(c) :
        /\ f.fn = "gate" /\ f.pc = "g2" /\ f.v = "gcp"
        /\ f.exp.tz = "utc" /\ f.exp.t + 1 = f.now
        /\ InPipeline(c, f.r)

\* C7: with an expiry in another timezone, the gate raises the UTC error at
\* its check, whatever the instant of the expiry: the operation ends with
\* that error, no pipeline was called, no request sent, no record changed.
C7_NonUtcRejected ==
    [][\A c \in Callers :
          (GateCompares(c, "gcp") /\ Top(c).exp.tz # "utc")
          => /\ stk'[c] = <<>>
             /\ res'[c] = UtcError
             /\ log[c][Len(log[c])] = Ev("gate", Top(c).r, "", "gcp", NoTok)
             /\ UNCHANGED <<log, stor, sess, nextTok>>]_vars

\* A gate call on the storage record ended with the UTC error while the
\* expiry's instant was still in the future.
C7_Witness ==
    \E c \in Callers :
        /\ res[c] = UtcError
        /\ stor.variant = "gcp" /\ stor.token_expiry.tz = "other"
        /\ stor.token_expiry.t > clock
        /\ log[c][Len(log[c])].r = "stor"

\* C8: an operation that ends with the missing-email error has sent no
\* request.
C8_FailFastNoNetwork ==
    \A c \in Callers : res[c] = "SA EMAIL NOT SET" => NetCalls(c) = <<>>

\* C9: a gate called with vendor aws returns at once without raising: no
\* request is sent and no record, handle or token changes.
C9_AwsGateNoOp ==
    [][\A c \in Callers :
          (At(c, "gate", "g0") /\ Top(c).v = "aws" /\ stk'[c] # stk[c])
          => /\ Len(stk'[c]) = Len(stk[c]) - 1
             /\ res'[c] \in {"run", "ok"}
             /\ NetCallsNext(c) = NetCalls(c)
             /\ UNCHANGED <<stor, sess, fsTok, nextTok>>]_vars

\* A direct gate call with vendor aws has returned.
C9_Witness ==
    \E c \in Callers :
        res[c] = "ok" /\ log[c] = <<Ev("gate", "stor", "", "aws", NoTok)>>

\* C10: in an operation called through the proxy, the gate is called on the
\* storage record at most once and the underlying operation at most once; the
\* operation is the last thing that happens, after the one gate call; when
\* the call has ended the gate was called exactly once, and when it ended
\* with an error that is not the operation's own, the operation never ran.
C10_GateOnceBeforeOperation ==
    \A c \in Callers :
        (log[c] # <<>> /\ log[c][1].leg = "wrapper")
        => /\ Cardinality(Idx(c, "gate", "stor")) <= 1
           /\ Cardinality(Idx(c, "op", "stor")) <= 1
           /\ \A j \in Idx(c, "op", "stor") :
                 /\ j = Len(log[c]) /\ ~Running(c)
                 /\ \E i \in Idx(c, "gate", "stor") : i < j
           /\ ~Running(c) => Cardinality(Idx(c, "gate", "stor")) = 1
           /\ (~Running(c) /\ res[c] \in {"ok", "OperationError"})
                 => Cardinality(Idx(c, "op", "stor")) = 1
           /\ (~Running(c) /\ res[c] \notin {"ok", "OperationError"})
                 => Idx(c, "op", "stor") = {}

\* A proxied operation ran after its gate call refreshed the record.
C10_Witness ==
    \E c \in Callers :
        /\ res[c] = "ok" /\ log[c] # <<>> /\ log[c][1].leg = "wrapper"
        /\ Idx(c, "imp", "stor") # {}
        /\ log[c][Len(log[c])].leg = "op"

\* c's current or last operation is a call through the proxy's wrapper.
Proxied(c) == log[c] # <<>> /\ log[c][1].leg = "wrapper"

\* C11: the operation behind the proxy receives the positional and keyword
\* arguments the caller passed to the wrapper; when it returns, the caller
\* receives its return value, and when it raises, the caller receives its
\* exception.  Reading an attribute that is not callable calls neither the
\* gate nor anything else, and gives the handle's attribute.
C11_ProxyTransparent ==
    \A c \in Callers :
        /\ Proxied(c) =>
              \A j \in Idx(c, "op", "stor") :
                 /\ log[c][j].args = log[c][1].args
                 /\ IF log[c][j].err = ""
                    THEN res[c] = "ok" /\ out[c] = log[c][j].out
                    ELSE res[c] = log[c][j].err
        /\ (log[c] # <<>> /\ log[c][1].leg = "attr") =>
              /\ Len(log[c]) = 1 /\ ~Running(c)
              /\ IF log[c][1].err = ""
                 THEN res[c] = "ok" /\ out[c] = log[c][1].out /\ out[c].tok = fsTok
                 ELSE res[c] = log[c][1].err

\* A call with a keyword argument went through the proxy, refreshed the
\* record and gave the caller the operation's value.
C11_Witness ==
    \E c \in Callers :
        /\ Proxied(c) /\ log[c][1].args.kw # {}
        /\ Idx(c, "imp", "stor") # {}
        /\ res[c] = "ok" /\ out[c] = Ret("result")

\* C14: no impersonation request is sent with the absent token of a
\* token-exchange response that had no access_token field.
C14_MissingAccessTokenFatal ==
    \A c \in Callers : \A i \in DOMAIN log[c] :
        log[c][i].leg = "imp" => log[c][i].via # "None"

\* The events of the refresh attempt on record r that c's event number g (a
\* call of generate_access_token) started: those up to the next such call.
Attempt(c, r, g) ==
    {i \in DOMAIN log[c] :
        /\ g < i /\ log[c][i].r = r
        /\ \A h \in Idx(c, "gen", r) : h > g => i < h}

StsFailed == "FAILED TO RETRIEVE GCP STS TOKEN"
ImpFailed == "FAILED TO GENERATE IMPERSONATED GCP TOKEN"

\* C15: one refresh attempt sends the token exchange at most once and the
\* impersonation request for each service account at most once; an operation
\* that ended with the failure of a leg sent that leg's request last.
C15_NoRetry ==
    \A c \in Callers :
        /\ \A r \in Records : \A g \in Idx(c, "gen", r) :
              LET A == Attempt(c, r, g)
              IN  /\ Cardinality({i \in A : log[c][i].leg = "sts"}) <= 1
                  /\ \A i, j \in A :
                        (log[c][i].leg = "imp" /\ log[c][j].leg = "imp"
                            /\ log[c][i].sa = log[c][j].sa) => i = j
        /\ res[c] = StsFailed => ~Running(c) /\ log[c][Len(log[c])].leg = "sts"
        /\ res[c] = ImpFailed => ~Running(c) /\ log[c][Len(log[c])].leg = "imp"

\* The final hop of an external refresh failed after the exchange and the
\* bridge hop had succeeded.
C15_Witness ==
    \E c \in Callers :
        /\ res[c] = ImpFailed
        /\ log[c][Len(log[c])].via = "bridge"
        /\ Idx(c, "sts", "stor") # {}

\* The exchange and impersonation requests of c's latest refresh attempt on
\* record r, in the order they were sent.
LastAttemptLegs(c, r) ==
    LET g == CHOOSE i \in Idx(c, "gen", r) : \A h \in Idx(c, "gen", r) : h <= i
    IN  SelectSeq(SubSeq(log[c], g + 1, Len(log[c])),
                  LAMBDA e : e.r = r /\ e.leg \in {"sts", "imp"})

\* The tokens a 2xx answer of the exchange gives the pipeline.
StsOutputs == {"sts", "None"}

\* C16: when the pipeline completes on a record, the requests of that attempt
\* were, in this order: the exchange, carrying the request signed for the
\* audience; then for internal one impersonation of the fixed account with
\* the exchange's token, and for external the impersonation of the bridge
\* account (exchange under the fixed external audience) with the exchange's
\* token followed by the impersonation of the record's sa_email with the
\* bridge hop's accessToken.
C16_LegOrder ==
    [][\A c \in Callers :
          (At(c, "gen", "n4") /\ Top(c).ret.hasExp /\ stk'[c] # stk[c])
          => LET rec == Rec(Top(c).r)
                 L == LastAttemptLegs(c, Top(c).r)
             IN  IF rec.refresh_mode = "internal"
                 THEN /\ Len(L) = 2
                      /\ L[1].leg = "sts" /\ L[1].via = Signed(rec.audience)
                      /\ L[2].leg = "imp" /\ L[2].sa = NARWHAL_SA
                      /\ L[2].via \in StsOutputs
                 ELSE /\ rec.refresh_mode = "external"
                      /\ Len(L) = 3
                      /\ L[1].leg = "sts" /\ L[1].via = Signed(SAMA_EXT_AUDIENCE)
                      /\ L[2].leg = "imp" /\ L[2].sa = SAMA_EXT_SA
                      /\ L[2].via \in StsOutputs
                      /\ L[3].leg = "imp" /\ L[3].sa = rec.sa_email
                      /\ L[3].via = "bridge"]_vars

\* An external refresh of the storage record completed.
C16_Witness ==
    \E c \in Callers :
        /\ res[c] = "ok" /\ stor.variant = "gcp" /\ stor.refresh_mode = "external"
        /\ stor.token.id > 0 /\ stor.token_expiry.src = stor.token.id
        /\ \E i \in Idx(c, "imp", "stor") : log[c][i].via = "bridge"

\* C17: when the pipeline completes, the record holds the accessToken and the
\* expireTime of the final hop's response; and a gate that compares a
\* record's expiry taken from a response while the clock has not reached it
\* calls no pipeline, sends nothing and changes no record.
C17_FinalPairStored ==
    [][\A c \in Callers :
          /\ (At(c, "gen", "n4") /\ Top(c).ret.hasExp /\ stk'[c] # stk[c])
             => /\ RecNext(Top(c).r).token = Top(c).ret.tok
                /\ RecNext(Top(c).r).token_expiry = Top(c).ret.exp
                /\ Top(c).ret.tok.id = Top(c).ret.exp.src
                /\ log[c][Len(log[c])].leg = "imp"
                /\ log[c][Len(log[c])].sa =
                      IF Rec(Top(c).r).refresh_mode = "internal"
                      THEN NARWHAL_SA ELSE Rec(Top(c).r).sa_email
          /\ (GateCompares(c, "gcp") /\ Top(c).exp = Rec(Top(c).r).token_expiry
                /\ Top(c).exp.src > 0 /\ clock < Top(c).exp.t)
             => /\ Len(stk'[c]) < Len(stk[c])
                /\ UNCHANGED <<stor, sess, nextTok, log>>]_vars

\* After a refresh stored a pair whose expiry the clock has not reached, a
\* later operation through the proxy ran without a refresh.
C17_Witness ==
    \E c \in Callers :
        /\ res[c] = "ok" /\ Proxied(c) /\ Idx(c, "gen", "stor") = {}
        /\ stor.variant = "gcp" /\ stor.token.id > 0
        /\ stor.token_expiry.src = stor.token.id
        /\ clock < stor.token_expiry.t

\* The token and the expiry the gate looks at in a record, by vendor.
GateToken(rec, v) == IF v = "azure" THEN rec.credential.token ELSE rec.token
GateExpiry(rec, v) == IF v = "azure" THEN rec.credential.expires_on ELSE rec.token_expiry

\* c's gate found its record expired, its pipeline has returned, and the gate
\* now returns.
GateReturnsAfterRefresh(c) ==
    At(c, "gate", "g2") /\ stk'[c] # stk[c]

Called(c, leg) == log[c] # <<>> /\ log[c][1].leg = leg

\* C12: a get_storage that returned gave a proxy when its vendor is gcp or
\* azure and the client itself otherwise, aws included; the session's handle
\* is a proxy exactly for gcp and azure; and in an aws session no wrapper is
\* ever called and an operation is the only event of its call: no gate ran.
C12_WrappedForGcpAzureOnly ==
    /\ narcon.fs # "none" =>
          /\ (narcon.fs = "proxy") = (narcon.cs \in {"gcp", "azure"})
          /\ narcon.cs = "aws" => narcon.fs = "plain"
    /\ \A c \in Callers :
          /\ (Called(c, "get_storage") /\ res[c] = "ok") =>
                /\ narcon.cs = log[c][1].via
                /\ out[c].s = narcon.fs
          /\ narcon.cs = "aws" =>
                \A j \in DOMAIN log[c] :
                   /\ log[c][j].leg # "wrapper"
                   /\ log[c][j].leg = "op" => j = 1 /\ Len(log[c]) = 1

\* get_storage("aws") gave the client, and an operation was called on it.
C12_Witness ==
    \E c \in Callers :
        /\ narcon.cs = "aws" /\ narcon.fs = "plain"
        /\ Called(c, "op") /\ res[c] = "ok"

\* The parts of an exception's message.
MessageParts(v) == {v.msg[i] : i \in DOMAIN v.msg}

\* C13: a construction of storage for a vendor tag outside the valid set,
\* through the factory or through get_storage, ends with an error whose
\* message names aws, gcp and azure, and builds no handle.
C13_InvalidVendorEnumerated ==
    \A c \in Callers :
        (~Running(c) /\ (Called(c, "create") \/ Called(c, "get_storage"))
            /\ log[c][1].via \notin Vendors)
        => /\ IsError(res[c])
           /\ Vendors \subseteq MessageParts(out[c])
           /\ Called(c, "get_storage") => narcon.fs = "none"

\* C19: when nar_setup reads a descriptor file that lacks infra_type or cloud
\* while the session has no record, construction ends with the setup error:
\* the session has no record and no infra_type, the object is not
\* constructed, and nothing was called or sent.
C19_DescriptorKeysRequired ==
    [][\A c \in Callers :
          (At(c, "nar_setup", "u0") /\ stk'[c] # stk[c]
              /\ Top(c).meta.exists /\ sess.variant = "none"
              /\ (Top(c).meta.infra_type = "" \/ Top(c).meta.cloud = ""))
          => /\ stk'[c] = <<>> /\ res'[c] = SetupError
             /\ sess' = NoCred
             /\ narcon' = narcon /\ narcon.phase = "new" /\ narcon.infra_type = "none"
             /\ log'[c] = <<Ev("nar_setup", "sess", "", "", NoTok)>>
             /\ nextTok' = nextTok]_vars

\* A construction ended with the setup error.
C19_Witness ==
    \E c \in Callers :
        /\ res[c] = SetupError /\ Called(c, "nar_setup")
        /\ sess = NoCred /\ narcon.phase = "new"

\* The canonical JSON of a header set: the headers in the order of their keys.
CanonicalJson(hs) ==
    InOrder(<<"Authorization", "Host", "X-Amz-Date", "X-Amz-Security-Token",
              "x-goog-cloud-target-resource">>, hs)

\* The headers of a token, parsed back.
ParsedHeaders(token) == Loads(Unquote(token)).headers

AllCredentials ==
    {get_aws_cred_session(a, e) : a \in AwsCredArgs, e \in EnvCredentials} \ {NoCredentials}
ValidKeys == {"AKenv", "AKcog"}

\* C21: a signing for which no credentials were supplied nor found in the
\* environment fails: it is the last event of its operation, which ended with
\* that error, so that no token exchange follows it; every other signing used
\* the credentials of the argument or of the environment; and every token
\* exchange directly follows a signing that succeeded, for the same record.
C21_NoCredentialsFatal ==
    \A c \in Callers : \A i \in DOMAIN log[c] :
        /\ log[c][i].leg = "sign" =>
              IF log[c][i].sa \notin ValidKeys
              THEN /\ log[c][i].err = FrozenError
                   /\ i = Len(log[c]) /\ ~Running(c) /\ res[c] = FrozenError
              ELSE log[c][i].err = ""
        /\ log[c][i].leg = "sts" =>
              /\ i > 1 /\ log[c][i - 1].leg = "sign" /\ log[c][i - 1].r = log[c][i].r
              /\ log[c][i - 1].err = "" /\ log[c][i - 1].sa \in ValidKeys
              /\ log[c][i].via = Signed(log[c][i - 1].via)

\* An operation through the proxy found the internal record expired and its
\* refresh ended at the signing, without credentials.
C21_Witness ==
    \E c \in Callers :
        /\ Proxied(c) /\ res[c] = FrozenError
        /\ stor.variant = "gcp" /\ stor.refresh_mode = "internal"
        /\ Idx(c, "gen", "stor") # {} /\ Idx(c, "sts", "stor") = {}
        /\ log[c][Len(log[c])].leg = "sign"

\* The elements of a sequence.
Range(seq) == {seq[i] : i \in DOMAIN seq}

\* C25: the token of every signing that returned lists the header
\* x-goog-cloud-target-resource with the given audience, and exactly one
\* Authorization header, whose signature is the one of service sts and region
\* us-east-1 over the POST request with all the other listed headers, the
\* audience header among them: the header was on the request when the
\* signature was computed.
C25_AudienceHeaderSigned ==
    \A c \in Callers :
        (Called(c, "sign") /\ res[c] = "ok")
        => LET listed == ParsedHeaders(out[c].signed)
               cred == CHOOSE k \in AllCredentials : k.access_key = log[c][1].sa
               signed == SelectSeq(listed, LAMBDA h : h.key # "Authorization")
               auth == SelectSeq(listed, LAMBDA h : h.key = "Authorization")
           IN  /\ Header("x-goog-cloud-target-resource", log[c][1].via) \in Range(signed)
               /\ Len(auth) = 1
               /\ auth[1].value =
                     cred.access_key \o "/" \o
                     Signature(cred.secret_key, "sts", "us-east-1", "POST", StsUrl,
                               Joined(InOrder(SignedHeaderNames, signed)))

\* A signing with the environment's credentials returned, at the last
\* instant, a token for the record's audience.
C25_Witness ==
    \E c \in Callers :
        /\ Called(c, "sign") /\ res[c] = "ok"
        /\ log[c][1].sa = "AKenv" /\ log[c][1].via = "aud" /\ log[c][1].now = MaxClock
        /\ Len(ParsedHeaders(out[c].signed)) = 4

\* C27: the pipeline called on a record whose refresh_mode is neither
\* internal nor external returns at once without raising: it sends no
\* request and changes no record, handle or token.
C27_OtherModeNoOp ==
    [][\A c \in Callers :
          (At(c, "gen", "n0") /\ stk'[c] # stk[c]
              /\ Rec(Top(c).r).refresh_mode \notin {"internal", "external"})
          => /\ Len(stk'[c]) = Len(stk[c]) - 1
             /\ res'[c] \in {"run", "ok"}
             /\ Depth(c) = 1 => out'[c] = NoRet
             /\ NetCallsNext(c) = NetCalls(c)
             /\ log'[c] = Append(log[c], Ev("gen", Top(c).r, "", "", NoTok))
             /\ UNCHANGED <<stor, sess, fsTok, nextTok>>]_vars

\* A direct call of the pipeline on a record with refresh_mode none and an
\* expiry the clock has passed returned, and the record is as it was.
C27_Witness ==
    \E c \in Callers :
        /\ res[c] = "ok" /\ log[c] = <<Ev("gen", "stor", "", "", NoTok)>>
        /\ stor.variant = "gcp" /\ stor.refresh_mode = "none"
        /\ stor.token = Tok(0) /\ stor.token_expiry.some /\ stor.token_expiry.t < clock

\* The fields of a record that are not live credentials.
Settings(rec) ==
    CASE rec.variant = "gcp" ->
            <<"gcp", rec.sa_email, rec.audience, rec.refresh_mode, rec.project>>
      [] rec.variant = "azure" ->
            <<"azure", rec.account_name, rec.tenant_id, rec.client_id, "">>
      [] OTHER -> <<rec.variant, "", "", "", "">>

\* C22: no step of a gate, a pipeline or an operation changes a record's
\* variant, sa_email, audience, refresh_mode, project, account_name, tenant_id
\* or client_id; the token and the expiry of a GCP record change only at the
\* pipeline's two assignments, and the credential of an Azure record only at
\* the gate's assignment.
C22_OnlyLiveFieldsChange ==
    [][\A r \in Records :
          /\ Settings(RecNext(r)) = Settings(Rec(r))
          /\ RecNext(r) # Rec(r) =>
                \E c \in Callers :
                   /\ Running(c) /\ Top(c).r = r
                   /\ \/ Top(c).fn = "gen" /\ Top(c).pc \in {"n3", "n4"}
                         /\ Rec(r).variant = "gcp"
                      \/ At(c, "gate", "g2") /\ Rec(r).variant = "azure"]_vars

\* The storage record, with its service account and mode as at the start, was
\* refreshed twice.
C22_Witness ==
    \E c \in Callers :
        /\ res[c] = "ok" /\ stor.variant = "gcp"
        /\ stor.token.id = 2 /\ stor.token_expiry.src = 2
        /\ stor.sa_email = "sa" /\ stor.refresh_mode = "external"

\* C23: the gate of an Azure record compares the held expires_on with the
\* current second.  When it is at or before it, the token request of the
\* client-assertion credential is called (the call raises only at the
\* interpreter's recursion limit), and when that request has returned, the
\* record's credential becomes one new holder with the token and the
\* expires_on of that one response.  When it is after it, the gate returns,
\* having sent no request and changed no record.
C23_AzureGateComparesEpoch ==
    [][\A c \in Callers :
          /\ GateCompares(c, "azure")
             => IF Top(c).exp.t <= clock
                THEN \/ res'[c] = "RecursionError"
                     \/ /\ Len(stk'[c]) = Len(stk[c]) + 1
                        /\ stk'[c][Len(stk'[c])] = Frame("aztoken", "a0", Top(c).r, "")
                        /\ UNCHANGED <<log, stor, sess, nextTok>>
                ELSE /\ Len(stk'[c]) = Len(stk[c]) - 1
                     /\ res'[c] \in {"run", "ok"}
                     /\ log[c][Len(log[c])] = Ev("gate", Top(c).r, "", "azure", NoTok)
                     /\ UNCHANGED <<log, stor, sess, nextTok>>
          /\ (At(c, "gate", "g2") /\ Top(c).v = "azure" /\ stk'[c] # stk[c])
             => /\ Top(c).exp.t <= Top(c).now
                /\ log[c][Len(log[c])].leg = "aad"
                /\ log[c][Len(log[c])].via = "oidc"
                /\ RecNext(Top(c).r).credential =
                      [token |-> Top(c).ret.tok, expires_on |-> Top(c).ret.exp]
                /\ Top(c).ret.tok.some /\ Top(c).ret.exp.some
                /\ Top(c).ret.exp.src = Top(c).ret.tok.id
                /\ Top(c).ret.tok.id > Rec(Top(c).r).credential.token.id]_vars

\* An operation through the proxy of an Azure session ran after its gate
\* replaced the credential.
C23_Witness ==
    \E c \in Callers :
        /\ res[c] = "ok" /\ Proxied(c) /\ stor.variant = "azure"
        /\ Idx(c, "aad", "stor") # {}
        /\ stor.credential.token.id > 0
        /\ stor.credential.expires_on.src = stor.credential.token.id

\* A GCP record's expiry is absent or a UTC timestamp.
ExpiryUtc(rec) ==
    rec.variant = "gcp" => (~rec.token_expiry.some \/ rec.token_expiry.tz = "utc")

\* C24: no step gives a GCP record an expiry that is not UTC, and the
\* pipeline's write of an expireTime that is not UTC ends the operation with
\* an error and leaves the record with the token and the expiry it had when
\* the attempt started.
C24_ExpiryUtcAtWrite ==
    [][\A c \in Callers :
          /\ \A r \in Records : ExpiryUtc(Rec(r)) => ExpiryUtc(RecNext(r))
          /\ (At(c, "gen", "n4") /\ stk'[c] # stk[c]
                /\ Top(c).ret.hasExp /\ Top(c).ret.exp.tz # "utc")
             => /\ IsError(res'[c])
                /\ RecNext(Top(c).r).token = Top(c).old.token
                /\ RecNext(Top(c).r).token_expiry = Top(c).old.token_expiry]_vars

\* C26: no operation ends at the interpreter's recursion limit: every call
\* chain that starts at a gate comes back after finitely many re-entries of
\* the gate, whatever the session's own record is.
C26_GateTerminates ==
    \A c \in Callers : res[c] # "RecursionError"

\* C28: get_secret, when the session holds a record with a token, calls the
\* gate on that record for vendor gcp before anything is sent (the call
\* raises only at the interpreter's recursion limit), and when the gate has
\* returned, the secret request carries the token the record holds then;
\* when the session holds no record or no token, the secret request is sent
\* with default credentials and no gate is called.
C28_GateBeforeSecret ==
    [][\A c \in Callers :
          /\ (At(c, "secret", "s0") /\ stk'[c] # stk[c])
             => IF sess.variant = "gcp" /\ sess.token.some
                THEN /\ log'[c] = log[c]
                     /\ \/ res'[c] = "RecursionError"
                        \/ /\ Len(stk'[c]) = Len(stk[c]) + 1
                           /\ stk'[c][Len(stk'[c])] = Frame("gate", "g0", "sess", "gcp")
                ELSE /\ log'[c] = Append(log[c], Ev("secret", "sess", "", "", NoTok))
                     /\ Len(stk'[c]) < Len(stk[c])
          /\ (At(c, "secret", "s1") /\ stk'[c] # stk[c])
             => /\ sess.variant = "gcp" /\ sess.token.some
                /\ log'[c] = Append(log[c], Ev("secret", "sess", "", "", sess.token))
                /\ Idx(c, "gate", "sess") # {}
                /\ Len(stk'[c]) < Len(stk[c])
                /\ sess' = sess]_vars

\* A direct get_secret whose gate refreshed the session's record sent the
\* secret request with the new token.
C28_Witness ==
    \E c \in Callers :
        /\ Called(c, "get_secret") /\ res[c] = "ok"
        /\ Idx(c, "imp", "sess") # {}
        /\ sess.token.id > 0
        /\ log[c][Len(log[c])] = Ev("secret", "sess", "", "", sess.token)

\* C29: a get_storage that returns does so for a valid vendor tag with a
\* record of that vendor's variant: for gcp one whose token and expiry are
\* the pair a completed refresh of this call stored, for azure one that holds
\* a credential with a token and an expiry; for gcp and azure a client id was
\* given.  A get_storage that does not return raises and stores no handle;
\* for a vendor other than aws without a client id it raises the storage
\* error.
C29_StorageMatchesVendor ==
    [][\A c \in Callers :
          (At(c, "get_storage", "t1") /\ stk'[c] # stk[c])
          => LET cv == Top(c).v
                 client == log[c][1].args.kw # {}
             IN  /\ IF res'[c] = "ok"
                    THEN /\ cv \in Vendors /\ stor.variant = cv /\ stor' = stor
                         /\ narcon'.cs = cv /\ out'[c].s = narcon'.fs
                         /\ cv # "aws" => client
                         /\ cv = "gcp" =>
                               /\ stor.token.some /\ stor.token_expiry.some
                               /\ stor.token.id > 0
                               /\ stor.token_expiry.src = stor.token.id
                               /\ Idx(c, "imp", "stor") # {}
                               /\ fsTok' = stor.token
                         /\ cv = "azure" =>
                               /\ stor.credential.token.some
                               /\ stor.credential.expires_on.some
                               /\ Idx(c, "aad", "stor") # {}
                    ELSE /\ IsError(res'[c])
                         /\ narcon' = narcon /\ narcon.fs = "none"
                 /\ (cv # "aws" /\ ~client) => res'[c] = StorageError]_vars

\* get_storage("gcp") with a client id returned a proxy, after the refresh of
\* the record it built.
C29_Witness ==
    \E c \in Callers :
        /\ Called(c, "get_storage") /\ res[c] = "ok"
        /\ log[c][1].via = "gcp" /\ out[c].s = "proxy"
        /\ stor.variant = "gcp" /\ stor.token.id > 0

\* The step is a call of cs.get_fs() by c.
GetFsStep(c) ==
    /\ log'[c] # <<>> /\ log'[c][1].leg = "get_fs"
    /\ <<log[c], res[c], out[c], narcon, fsTok>> # <<log'[c], res'[c], out'[c], narcon', fsTok'>>

\* C30: a get_fs on a CloudStorage that has a client returns that client, the
\* one with the token it was built with, and builds nothing, whatever the
\* record is now; a get_fs on one without a client builds the first one from
\* the record, or raises and builds none; and the client of a CloudStorage
\* is replaced only by a call of set_fs.
C30_GetFsIdempotent ==
    [][\A c \in {"c1"} :
          /\ GetFsStep(c)
             => IF narcon.client # 0
                THEN /\ narcon' = narcon /\ fsTok' = fsTok
                     /\ res'[c] = "ok" /\ out'[c] = Handle(narcon.client, fsTok)
                ELSE IF res'[c] = "ok"
                THEN /\ narcon'.client = 1
                     /\ fsTok' = ClientToken(narcon.cs, stor)
                     /\ out'[c] = Handle(1, fsTok')
                ELSE /\ IsError(res'[c])
                     /\ narcon' = narcon /\ fsTok' = fsTok
          /\ (narcon.client # 0 /\ <<narcon.client, fsTok>> # <<narcon'.client, fsTok'>>)
             => /\ log'[c][1].leg = "set_fs" /\ res'[c] = "ok"
                /\ narcon'.client = narcon.client + 1]_vars

\* get_fs returned the first client, built with the first token, after the
\* record was replaced by one with another token.
C30_Witness ==
    /\ log["c1"] # <<>> /\ log["c1"][1].leg = "get_fs" /\ res["c1"] = "ok"
    /\ narcon.cs = "gcp" /\ narcon.client = 1
    /\ out["c1"] = Handle(1, Tok(0))
    /\ stor.variant = "gcp" /\ stor.token = Tok(1)

=============================================================================
